---- MODULE Spec2Model ----
(***************************************************************************)
(* webgrab: a bounded-concurrency task scheduler (lib/taskrunner.js) and   *)
(* the crawl driver that uses it (webgrab.js).                             *)
(*                                                                         *)
(* JavaScript runs one callback at a time, so every action below is one    *)
(* synchronous run of code: a public call, or one promise reaction.        *)
(***************************************************************************)
EXTENDS Integers, Sequences, FiniteSets, TLC

VARIABLES
  taskRunner,     \* the TaskRunner object: its five fields
  tasks,          \* every task object created by addTask, in submission order
  promises,       \* every promise returned by promiseDone(), in call order
  started,        \* task ids in the order _startTask invoked their job
  seenSites,      \* webgrab.js main(): Set of uris whose fetch fulfilled
  pendingSites,   \* webgrab.js main(): Set of uris queued and not yet started
  siteQueue,      \* webgrab.js main(): array of SiteItem
  siteCount,      \* webgrab.js main(): discovery counter
  pc,             \* where main() is: "none" | "start" | "await" | "done"
  awaited,        \* the promise main() awaits (index into promises), 0 if none
  quit,           \* driver.quit() has been called on the drivers
  config,         \* command line and config file of the run
  web             \* what the web serves to loadURI, per uri

vars == <<taskRunner, tasks, promises, started, seenSites, pendingSites,
          siteQueue, siteCount, pc, awaited, quit, config, web>>

crawlVars == <<seenSites, siteQueue, siteCount, pc, awaited, quit, config, web>>

----------------------------------------------------------------------------
(* Bounds of the model *)

\* calls of addResource, addTask and promiseDone in a run of the scheduler
\* on its own
MaxCalls == 5
\* largest --browsercount of a crawl
MaxBrowsers == 2
\* most <a> elements on the page of the seed, in the crawls that vary the page
MaxHrefs == 3

----------------------------------------------------------------------------
(* Sequence helpers standing for Array.prototype methods *)

\* array.shift(): the array without its first element
Shift(seq) == SubSeq(seq, 2, Len(seq))

\* the elements of an array, as a set
Range(seq) == {seq[i] : i \in 1..Len(seq)}

----------------------------------------------------------------------------
(* lib/taskrunner.js *)

\* The scheduler's operations are written over one record w holding what a
\* synchronous run of scheduler code can touch:
\*   w.tr           the TaskRunner object
\*   w.tasks        the task objects
\*   w.promises     the promiseDone() promises
\*   w.started      the order in which jobs were invoked
\*   w.pendingSites the crawl's pendingSites, which a fetch job edits when invoked
World == [tr |-> taskRunner, tasks |-> tasks, promises |-> promises,
          started |-> started, pendingSites |-> pendingSites]

\* function TaskRunner(): the object after construction
\* (onDone = 0 stands for the property _onDone not being set)
TaskRunner == [resourcePool |-> <<>>, taskQueue |-> <<>>,
               freeResourcePool |-> <<>>, activeTaskCount |-> 0, onDone |-> 0]

\* A task's job, invoked with a resource: the code the job runs before its
\* first await.  A fetch job (webgrab.js) removes its uri from pendingSites;
\* the harness's job touches nothing.  The job's promise is pending afterwards.
InvokeJob(w, t) ==
  [w EXCEPT !.tasks[t].calls = @ + 1,
            !.tasks[t].state = "running",
            !.started = Append(@, t),
            !.pendingSites = IF w.tasks[t].job = "fetch"
                             THEN @ \ {w.tasks[t].item.site} ELSE @]

\* a plausible slip: the task is started without being counted
_startTaskNoCount(w, t, resource) ==
  InvokeJob([w EXCEPT !.tasks[t].resource = resource], t)

\* _startTask(task, resource)
_startTask(w, t, resource) ==
  LET w1 == [w EXCEPT !.tasks[t].resource = resource,
                      !.tr.activeTaskCount = @ + 1]
  IN  InvokeJob(w1, t)

\* a plausible slip: the newest waiting task is taken (pop) instead of the
\* oldest (shift)
_freeResourceLifo(w, resource) ==
  LET w1 == [w EXCEPT !.tr.freeResourcePool = Append(@, resource)]
      n  == Len(w1.tr.taskQueue)
  IN  IF n > 0
      THEN _startTask(
             [w1 EXCEPT !.tr.taskQueue = SubSeq(@, 1, n - 1),
                        !.tr.freeResourcePool = Shift(@)],
             w1.tr.taskQueue[n], Head(w1.tr.freeResourcePool))
      ELSE w1

\* a plausible slip: the resource handed to the task stays in the free pool
_freeResourceNoShift(w, resource) ==
  LET w1 == [w EXCEPT !.tr.freeResourcePool = Append(@, resource)]
  IN  IF Len(w1.tr.taskQueue) > 0
      THEN _startTask([w1 EXCEPT !.tr.taskQueue = Shift(@)],
                      Head(w1.tr.taskQueue), Head(w1.tr.freeResourcePool))
      ELSE w1

\* _freeResource(resource)
_freeResource(w, resource) ==
  LET w1 == [w EXCEPT !.tr.freeResourcePool = Append(@, resource)]
  IN  IF Len(w1.tr.taskQueue) > 0
      THEN _startTask(
             [w1 EXCEPT !.tr.taskQueue = Shift(@),
                        !.tr.freeResourcePool = Shift(@)],
             Head(w1.tr.taskQueue), Head(w1.tr.freeResourcePool))
      ELSE w1

\* a plausible slip: the resource is registered and never made free
addResourceNoFree(w, resource) ==
  [w EXCEPT !.tr.resourcePool = Append(@, resource)]

\* addResource(resource)
addResource(w, resource) ==
  _freeResource([w EXCEPT !.tr.resourcePool = Append(@, resource)], resource)

\* a plausible slip: the task is queued and the free pool is not looked at
addTaskNoStart(w, job, callback, item) ==
  LET t  == Len(w.tasks) + 1
  IN  [w EXCEPT !.tasks = Append(@, [job |-> job, callback |-> callback,
                                     item |-> item, state |-> "queued",
                                     resource |-> 0, outcome |-> "pending",
                                     calls |-> 0, released |-> 0,
                                     waited |-> w.tr.freeResourcePool = << >>]),
                !.tr.taskQueue = Append(@, t)]

\* a plausible slip: the free resource is read but not taken out of the pool
addTaskNoShift(w, job, callback, item) ==
  LET t  == Len(w.tasks) + 1
      w1 == [w EXCEPT !.tasks = Append(@, [job |-> job, callback |-> callback,
                                           item |-> item, state |-> "queued",
                                           resource |-> 0, outcome |-> "pending",
                                           calls |-> 0, released |-> 0,
                                           waited |-> w.tr.freeResourcePool = << >>]),
                      !.tr.taskQueue = Append(@, t)]
  IN  IF Len(w1.tr.freeResourcePool) > 0
      THEN _startTask([w1 EXCEPT !.tr.taskQueue = Shift(@)],
                      Head(w1.tr.taskQueue), Head(w1.tr.freeResourcePool))
      ELSE w1

\* addTask(job, callback): the new task object is tasks[t].  Beside job and
\* callback (and the SiteItem its closures hold) the record keeps the task's
\* resource (0: not set), the state of its promise chain
\*   "queued"    in _taskQueue, job not invoked
\*   "running"   job invoked, its promise pending
\*   "fulfilled" the promise _startTask chained _endTask to is fulfilled: the
\*               reaction calling _endTask is due
\*   "rejected"  that promise is rejected: it has no rejection handler, so
\*               nothing more runs for the task
\*   "ended"     _endTask has run
\* how the job's own promise settled, how often the job was invoked, how
\* often _endTask gave the resource back, and whether addTask found no free
\* resource and left the task waiting in _taskQueue.
addTask(w, job, callback, item) ==
  LET t  == Len(w.tasks) + 1
      w1 == [w EXCEPT !.tasks = Append(@, [job |-> job, callback |-> callback,
                                           item |-> item, state |-> "queued",
                                           resource |-> 0, outcome |-> "pending",
                                           calls |-> 0, released |-> 0,
                                           waited |-> w.tr.freeResourcePool = << >>]),
                      !.tr.taskQueue = Append(@, t)]
  IN  IF Len(w1.tr.freeResourcePool) > 0
      THEN _startTask(
             [w1 EXCEPT !.tr.taskQueue = Shift(@),
                        !.tr.freeResourcePool = Shift(@)],
             Head(w1.tr.taskQueue), Head(w1.tr.freeResourcePool))
      ELSE w1

\* resolve() of promise p: a promise settles once, a second resolve() is
\* ignored.  The record notes how many tasks had been submitted by then and
\* how many entries of _resourcePool were not in _freeResourcePool.
Resolve(w, p) ==
  IF w.promises[p].resolved THEN w
  ELSE [w EXCEPT !.promises[p].resolved = TRUE,
                 !.promises[p].tasksAtResolve = Len(w.tasks),
                 !.promises[p].busyAtResolve =
                    Len(w.tr.resourcePool) - Len(w.tr.freeResourcePool)]

\* a plausible slip: the promise is resolved whether or not work is left
promiseDoneNoWait(w) ==
  LET p  == Len(w.promises) + 1
      w1 == [w EXCEPT !.promises = Append(@, [resolved |-> FALSE,
                                              tasksAtCall |-> Len(w.tasks),
                                              tasksAtResolve |-> 0,
                                              busyAtResolve |-> 0])]
  IN  Resolve(w1, p)

\* promiseDone(): the new promise is promises[p]; _onDone = () => resolve()
\* is kept as the index of the promise whose resolve it calls.  The record
\* notes how many tasks had been submitted at the call.
promiseDone(w) ==
  LET p  == Len(w.promises) + 1
      w1 == [w EXCEPT !.promises = Append(@, [resolved |-> FALSE,
                                              tasksAtCall |-> Len(w.tasks),
                                              tasksAtResolve |-> 0,
                                              busyAtResolve |-> 0])]
  IN  IF w.tr.activeTaskCount = 0 /\ Len(w.tr.taskQueue) = 0
      THEN Resolve(w1, p)
      ELSE [w1 EXCEPT !.tr.onDone = p]

\* a plausible slip: the done test forgets the queue
_endTaskNoQueueTest(w, t) ==
  LET w1 == [w EXCEPT !.tr.activeTaskCount = @ - 1]
      w2 == IF w1.tr.onDone # 0 /\ w1.tr.activeTaskCount = 0
            THEN Resolve(w1, w1.tr.onDone)
            ELSE w1
      w3 == [w2 EXCEPT !.tasks[t].state = "ended",
                       !.tasks[t].released = @ + 1]
  IN  _freeResource(w3, w.tasks[t].resource)

\* _endTask(task)
_endTask(w, t) ==
  LET w1 == [w EXCEPT !.tr.activeTaskCount = @ - 1]
      w2 == IF w1.tr.onDone # 0 /\ w1.tr.activeTaskCount = 0
               /\ Len(w1.tr.taskQueue) = 0
            THEN Resolve(w1, w1.tr.onDone)
            ELSE w1
      w3 == [w2 EXCEPT !.tasks[t].state = "ended",
                       !.tasks[t].released = @ + 1]
  IN  _freeResource(w3, w.tasks[t].resource)

\* writes a World record back to the variables
Commit(w) ==
  /\ taskRunner' = w.tr
  /\ tasks' = w.tasks
  /\ promises' = w.promises
  /\ started' = w.started
  /\ pendingSites' = w.pendingSites

----------------------------------------------------------------------------
(* webgrab.js: uris, pages and loadURI *)

\* An absolute uri without fragment, as URL.toString() gives it once hash = ''
Uri(host, path) == [host |-> host, path |-> path]

NoUri == Uri("", "")
exRoot == Uri("ex.com", "/")
exA == Uri("ex.com", "/a")
exB == Uri("ex.com", "/b")
otherB == Uri("other.com", "/b")

Uris == {exRoot, exA, exB, otherB}

\* the value of an <a> element's href attribute:
\*   "abs"   an absolute uri, with or without fragment (hash = "" when without)
\*   "path"  an absolute-path reference such as /b or /b#top
\*   "frag"  a fragment-only reference such as #sec
\*   "#"     the bare fragment marker
\*   "empty" no href attribute, or an empty one
Href(kind, host, path, hash) ==
  [kind |-> kind, host |-> host, path |-> path, hash |-> hash]

\* What the web serves in the crawls explored: per uri, the Content-Type of
\* the HEAD request, the document.documentURI the browser reports and the
\* hrefs of the <a> elements.
Web == [u \in Uris |->
  CASE u = exRoot ->
         [contentType |-> "text/html", documentURI |-> exRoot,
          hrefs |-> << Href("abs", "ex.com", "/a", ""),
                       Href("abs", "ex.com", "/a", "x"),
                       Href("abs", "other.com", "/b", ""),
                       Href("#", "", "", ""),
                       Href("path", "", "/b", "") >>]
    [] u = exA ->
         [contentType |-> "text/html; charset=utf-8", documentURI |-> exA,
          hrefs |-> << Href("path", "", "/b", "top"),
                       Href("empty", "", "", ""),
                       Href("abs", "ex.com", "/", "") >>]
    [] u = exB ->
         [contentType |-> "application/xhtml+xml", documentURI |-> exB,
          hrefs |-> << Href("abs", "ex.com", "/a", "y"),
                       Href("frag", "", "", "sec"),
                       Href("abs", "other.com", "/b", "") >>]
    [] OTHER ->
         [contentType |-> "application/pdf", documentURI |-> u,
          hrefs |-> << >>] ]

\* new URL(href, documentURI), a record [host, path, hash]
NewURL(href, documentURI) ==
  CASE href.kind = "abs"  -> [host |-> href.host, path |-> href.path,
                              hash |-> href.hash]
    [] href.kind = "path" -> [host |-> documentURI.host, path |-> href.path,
                              hash |-> href.hash]
    [] OTHER              -> [host |-> documentURI.host,
                              path |-> documentURI.path, hash |-> href.hash]

\* a plausible slip: the hash is not cleared before toString()
ToStringWithHash(uriObj) == uriObj

\* uriObj.hash = ''; uriObj.toString()
ToStringNoHash(uriObj) == Uri(uriObj.host, uriObj.path)

\* the loop of loadURI over the <a> elements: hrefUris is a Set, which keeps
\* its entries in insertion order and ignores a value it already holds
RECURSIVE HrefUris(_, _, _)
HrefUris(hrefs, documentURI, acc) ==
  IF hrefs = << >> THEN acc
  ELSE LET href == Head(hrefs)
           uri  == ToStringNoHash(NewURL(href, documentURI))
       IN  IF href.kind \in {"empty", "#"}
           THEN HrefUris(Tail(hrefs), documentURI, acc)
           ELSE HrefUris(Tail(hrefs), documentURI,
                         IF uri \in Range(acc) THEN acc ELSE Append(acc, uri))

\* contentType.startsWith('text/html') || startsWith('application/xhtml+xml')
IsHtml(contentType) ==
  contentType \in {"text/html", "text/html; charset=utf-8",
                   "application/xhtml+xml"}

\* loadURI(uri, driver, delay) when nothing throws: the array it returns
loadURI(uri) ==
  IF ~IsHtml(web[uri].contentType) THEN << >>
  ELSE HrefUris(web[uri].hrefs, web[uri].documentURI, << >>)

----------------------------------------------------------------------------
(* webgrab.js: site items *)

\* A RegExp is modelled by the set of uris its test() accepts.
test(regex, ref) == ref \in regex

\* /other\.com/i
reOther == {otherB}
\* /\/b/i
reB == {exB, otherB}
\* /\/a/i
reA == {exA}

\* siteDefault of normalizeSiteList
siteDefault ==
  [site |-> NoUri, getChildren |-> TRUE, alsoGetChildren |-> << >>,
   dontGetChildren |-> << >>, expandChildren |-> TRUE,
   alsoExpandChildren |-> << >>, dontExpandChildren |-> << >>, depth |-> 100]

\* normalizeSiteList(siteList).  An entry of the configuration file is a string
\* ([type |-> "string", value |-> uri]) or an object giving some of the
\* properties ([type |-> "object", value |-> record]); the strings standing
\* for regular expressions are already RegExps here.
normalizeSiteList(siteList) ==
  [i \in 1..Len(siteList) |->
     IF siteList[i].type = "string"
     THEN [siteDefault EXCEPT !.site = siteList[i].value]
     ELSE [property \in DOMAIN siteDefault |->
             IF property \in DOMAIN siteList[i].value
             THEN siteList[i].value[property]
             ELSE siteDefault[property]]]

\* The configuration files of the runs explored
ConfigFiles ==
  { << [type |-> "string", value |-> exRoot] >>,
    << [type |-> "object", value |-> [site |-> exRoot, depth |-> 1]] >>,
    << [type |-> "object", value |-> [site |-> exRoot, depth |-> 0]] >>,
    << [type |-> "object",
        value |-> [site |-> exRoot, alsoGetChildren |-> << reOther >>,
                   dontGetChildren |-> << reB >>, expandChildren |-> FALSE,
                   alsoExpandChildren |-> << reA >>,
                   dontExpandChildren |-> << reA, reB >>, depth |-> 2]] >>,
    << [type |-> "object",
        value |-> [site |-> exRoot, alsoGetChildren |-> << reOther >>,
                   depth |-> 1]] >>,
    << [type |-> "object",
        value |-> [site |-> exRoot, expandChildren |-> FALSE]] >>,
    << [type |-> "object",
        value |-> [site |-> exB, getChildren |-> FALSE,
                   alsoGetChildren |-> << reOther >>]],
       [type |-> "string", value |-> exB] >>,
    << [type |-> "string", value |-> exA],
       [type |-> "object", value |-> [site |-> exB, getChildren |-> FALSE]],
       [type |-> "string", value |-> exA] >> }

\* The crawl's own state, as one record c: seenSites, pendingSites, siteQueue
\* and siteCount.
Crawl == [seenSites |-> seenSites, pendingSites |-> pendingSites,
          siteQueue |-> siteQueue, siteCount |-> siteCount]

\* a plausible slip: every entry of the list is queued, pending or not
RECURSIVE QueueStartingListAll(_, _)
QueueStartingListAll(c, siteList) ==
  IF siteList = << >> THEN c
  ELSE QueueStartingListAll(
         [c EXCEPT !.pendingSites = @ \cup {Head(siteList).site},
                   !.siteQueue = Append(@, Head(siteList)),
                   !.siteCount = @ + 1],
         Tail(siteList))

\* main(): "Queue the starting list of sites for processing"
RECURSIVE QueueStartingList(_, _)
QueueStartingList(c, siteList) ==
  IF siteList = << >> THEN c
  ELSE LET siteItem == Head(siteList)
           uri == siteItem.site
       IN  QueueStartingList(
             IF uri \notin c.pendingSites
             THEN [c EXCEPT !.pendingSites = @ \cup {uri},
                            !.siteQueue = Append(@, siteItem),
                            !.siteCount = @ + 1]
             ELSE c,
             Tail(siteList))

\* some regex of the array accepts ref (a forEach that sets a flag on a match)
AnyMatch(regexes, ref) == \E i \in 1..Len(regexes) : test(regexes[i], ref)

\* a plausible slip: the two forEach loops in the other order, so that a
\* dontGetChildren match has the last word (as in the sequential index.js)
getMeDenyLast(siteItem, ref) ==
  LET currentHost == siteItem.site.host
      getMe0 == ref.host = currentHost
      getMe1 == IF AnyMatch(siteItem.alsoGetChildren, ref)
                THEN TRUE ELSE getMe0
  IN  IF AnyMatch(siteItem.dontGetChildren, ref) THEN FALSE ELSE getMe1

\* a plausible slip: getMe starts as true instead of the host comparison
getMeAnyHost(siteItem, ref) ==
  LET getMe1 == IF AnyMatch(siteItem.dontGetChildren, ref) THEN FALSE ELSE TRUE
  IN  IF AnyMatch(siteItem.alsoGetChildren, ref) THEN TRUE ELSE getMe1

\* "Should we get this reference uri?": the value of getMe after the two
\* forEach loops, each of which overwrites it on a match
getMe(siteItem, ref) ==
  LET currentHost == siteItem.site.host
      getMe0 == ref.host = currentHost
      getMe1 == IF AnyMatch(siteItem.dontGetChildren, ref)
                THEN FALSE ELSE getMe0
  IN  IF AnyMatch(siteItem.alsoGetChildren, ref) THEN TRUE ELSE getMe1

\* a plausible slip: the child takes the parent's expandChildren whatever the
\* expand patterns say, and its depth is tested but not decremented
AdmitRefNoClone(c, siteItem, ref, referencesOnly) ==
  IF ref \in c.seenSites \/ ref \in c.pendingSites
  THEN c
  ELSE LET childItem == [siteItem EXCEPT !.site = ref,
                                         !.getChildren = siteItem.expandChildren]
       IN  IF getMe(siteItem, ref)
              /\ (~referencesOnly \/ childItem.depth - 1 > 0)
           THEN [c EXCEPT !.pendingSites = @ \cup {ref},
                          !.siteQueue = Append(@, childItem),
                          !.siteCount = @ + 1]
           ELSE c

\* a plausible slip: the child is pushed on siteQueue and pendingSites is
\* not told
AdmitRefNoPending(c, siteItem, ref, referencesOnly) ==
  IF ref \in c.seenSites \/ ref \in c.pendingSites
  THEN c
  ELSE LET expand0 == siteItem.expandChildren
           expand1 == IF AnyMatch(siteItem.dontExpandChildren, ref)
                      THEN FALSE ELSE expand0
           expandChildren == IF AnyMatch(siteItem.alsoExpandChildren, ref)
                             THEN TRUE ELSE expand1
           childItem == [siteItem EXCEPT !.site = ref,
                                         !.getChildren = expandChildren,
                                         !.depth = @ - 1]
       IN  IF getMe(siteItem, ref)
              /\ (~referencesOnly \/ childItem.depth > 0)
           THEN [c EXCEPT !.siteQueue = Append(@, childItem),
                          !.siteCount = @ + 1]
           ELSE c

\* a plausible slip: siteCount++ stands after the references-only test, so
\* that a child that is only logged is counted too
AdmitRefCountsWould(c, siteItem, ref, referencesOnly) ==
  IF ref \in c.seenSites \/ ref \in c.pendingSites
  THEN c
  ELSE LET expand0 == siteItem.expandChildren
           expand1 == IF AnyMatch(siteItem.dontExpandChildren, ref)
                      THEN FALSE ELSE expand0
           expandChildren == IF AnyMatch(siteItem.alsoExpandChildren, ref)
                             THEN TRUE ELSE expand1
           childItem == [siteItem EXCEPT !.site = ref,
                                         !.getChildren = expandChildren,
                                         !.depth = @ - 1]
       IN  IF ~getMe(siteItem, ref) THEN c
           ELSE IF ~referencesOnly \/ childItem.depth > 0
           THEN [c EXCEPT !.pendingSites = @ \cup {ref},
                          !.siteQueue = Append(@, childItem),
                          !.siteCount = @ + 1]
           ELSE [c EXCEPT !.siteCount = @ + 1]

\* the body of siteRefs.forEach in callback.onFulfilled, for one ref
AdmitRef(c, siteItem, ref, referencesOnly) ==
  IF ref \in c.seenSites \/ ref \in c.pendingSites
  THEN c
  ELSE LET expand0 == siteItem.expandChildren
           expand1 == IF AnyMatch(siteItem.dontExpandChildren, ref)
                      THEN FALSE ELSE expand0
           expandChildren == IF AnyMatch(siteItem.alsoExpandChildren, ref)
                             THEN TRUE ELSE expand1
           childItem == [siteItem EXCEPT !.site = ref,
                                         !.getChildren = expandChildren,
                                         !.depth = @ - 1]
       IN  IF getMe(siteItem, ref)
              /\ (~referencesOnly \/ childItem.depth > 0)
           THEN [c EXCEPT !.pendingSites = @ \cup {ref},
                          !.siteQueue = Append(@, childItem),
                          !.siteCount = @ + 1]
           ELSE c

\* siteRefs.forEach(ref => ...)
RECURSIVE ForEachRef(_, _, _, _)
ForEachRef(c, siteItem, siteRefs, referencesOnly) ==
  IF siteRefs = << >> THEN c
  ELSE ForEachRef(AdmitRef(c, siteItem, Head(siteRefs), referencesOnly),
                  siteItem, Tail(siteRefs), referencesOnly)

\* a plausible slip: only the depth is tested, getChildren is not
onFulfilledDepthOnly(c, siteItem, siteRefs, referencesOnly) ==
  LET c1 == [c EXCEPT !.seenSites = @ \cup {siteItem.site}]
  IN  IF siteItem.depth > 0
      THEN ForEachRef(c1, siteItem, siteRefs, referencesOnly)
      ELSE c1

\* a plausible slip: the depth test lets depth 0 through
onFulfilledDepthZero(c, siteItem, siteRefs, referencesOnly) ==
  LET c1 == [c EXCEPT !.seenSites = @ \cup {siteItem.site}]
  IN  IF siteItem.getChildren /\ siteItem.depth >= 0
      THEN ForEachRef(c1, siteItem, siteRefs, referencesOnly)
      ELSE c1

\* callback.onFulfilled(siteRefs) of the task made for siteItem
onFulfilled(c, siteItem, siteRefs, referencesOnly) ==
  LET c1 == [c EXCEPT !.seenSites = @ \cup {siteItem.site}]
  IN  IF siteItem.getChildren /\ siteItem.depth > 0
      THEN ForEachRef(c1, siteItem, siteRefs, referencesOnly)
      ELSE c1

\* callback.onRejected(reason): logs, and changes nothing
onRejected(c, siteItem) == c

----------------------------------------------------------------------------
(* Promise reactions of a task: _startTask's
     promise = task.job(resource);
     if (task.callback) promise = promise.then(onFulfilled, onRejected);
     promise.then(() => this._endTask(task));                              *)

\* the callbacks a task may carry: none, one with onFulfilled only, one with
\* both handlers (the harness's handlers do nothing), and webgrab's
HarnessCallbacks == {"none", "onFulfilled", "both"}

\* a plausible slip: webgrab's callback comes without onRejected
HasHandlerFulfilledOnly(callback, outcome) ==
  \/ outcome = "fulfilled" /\ callback \in {"onFulfilled", "both", "crawl"}
  \/ outcome = "rejected" /\ callback \in {"both"}

\* whether callback has a handler for the way the job's promise settled
HasHandler(callback, outcome) ==
  \/ outcome = "fulfilled" /\ callback \in {"onFulfilled", "both", "crawl"}
  \/ outcome = "rejected" /\ callback \in {"both", "crawl"}

\* How the promise that _endTask is chained to settles: a handler that returns
\* fulfils it; without a handler for the outcome, then() passes the outcome on.
ChainedOutcome(callback, outcome) ==
  IF HasHandler(callback, outcome) THEN "fulfilled" ELSE outcome

\* writes a Crawl record back to the variables the callbacks touch
CommitCrawl(c) ==
  /\ seenSites' = c.seenSites
  /\ pendingSites' = c.pendingSites
  /\ siteQueue' = c.siteQueue
  /\ siteCount' = c.siteCount

\* The job's promise of running task t settles, and the reaction then()
\* registered for the callback runs (for a fetch: the network decides whether
\* loadURI returns or throws).
JobSettles(t, outcome) ==
  /\ tasks[t].state = "running"
  /\ tasks' = [tasks EXCEPT
                 ![t].outcome = outcome,
                 ![t].state = ChainedOutcome(tasks[t].callback, outcome)]
  /\ IF tasks[t].callback = "crawl"
     THEN IF outcome = "fulfilled"
          THEN \E c \in {onFulfilled(Crawl, tasks[t].item,
                                      loadURI(tasks[t].item.site),
                                      config.referencesOnly)} : CommitCrawl(c)
          ELSE CommitCrawl(onRejected(Crawl, tasks[t].item))
     ELSE UNCHANGED <<seenSites, pendingSites, siteQueue, siteCount>>
  /\ UNCHANGED <<taskRunner, promises, started, pc, awaited, quit, config, web>>

\* The job's promise of running task t settles and the handler the callback
\* has for that outcome fails (it throws, or returns a rejected promise):
\* promise.then(onFulfilled, onRejected) is then a rejected promise.  The
\* crawler's own handlers do not come here: its onFulfilled is one try/catch
\* and its onRejected only logs.
CallbackFails(t, outcome) ==
  /\ tasks[t].state = "running"
  /\ tasks[t].callback \in HarnessCallbacks
  /\ HasHandler(tasks[t].callback, outcome)
  /\ tasks' = [tasks EXCEPT ![t].outcome = outcome, ![t].state = "rejected"]
  /\ UNCHANGED <<taskRunner, promises, started, pendingSites>>
  /\ UNCHANGED crawlVars

\* The reaction () => this._endTask(task) runs
EndTaskReaction(t) ==
  /\ tasks[t].state = "fulfilled"
  /\ \E w \in {_endTask(World, t)} : Commit(w)
  /\ UNCHANGED crawlVars

----------------------------------------------------------------------------
(* The scheduler on its own: a caller that adds resources and tasks and asks
   for promiseDone() at any time (test/taskrunner.js is one such caller)    *)

\* the harness's tasks are for no site
NoItem == [site |-> NoUri]

NoConfig == [browsercount |-> 0, referencesOnly |-> FALSE, siteList |-> << >>]

Init ==
  /\ taskRunner = TaskRunner
  /\ tasks = << >>
  /\ promises = << >>
  /\ started = << >>
  /\ seenSites = {}
  /\ pendingSites = {}
  /\ siteQueue = << >>
  /\ siteCount = 0
  /\ pc = "none"
  /\ awaited = 0
  /\ quit = FALSE
  /\ config = NoConfig
  /\ web = Web

\* the calls made so far
Calls == Len(taskRunner.resourcePool) + Len(tasks) + Len(promises)

\* taskRunner.addResource(resource): resources are opaque, so the caller's
\* choice is a resource added before or a new one
AddResource(resource) ==
  /\ Calls < MaxCalls
  /\ Commit(addResource(World, resource))
  /\ UNCHANGED crawlVars

\* taskRunner.addTask(job, callback)
AddTask(callback) ==
  /\ Calls < MaxCalls
  /\ Commit(addTask(World, "job", callback, NoItem))
  /\ UNCHANGED crawlVars

\* taskRunner.promiseDone()
PromiseDone ==
  /\ Calls < MaxCalls
  /\ Commit(promiseDone(World))
  /\ UNCHANGED crawlVars

Next ==
  \/ \E resource \in 1..(Len(taskRunner.resourcePool) + 1) :
       AddResource(resource)
  \/ \E callback \in HarnessCallbacks : AddTask(callback)
  \/ PromiseDone
  \/ \E t \in 1..Len(tasks), outcome \in {"fulfilled", "rejected"} :
       JobSettles(t, outcome)
  \/ \E t \in 1..Len(tasks), outcome \in {"fulfilled", "rejected"} :
       CallbackFails(t, outcome)
  \/ \E t \in 1..Len(tasks) : EndTaskReaction(t)

Spec == Init /\ [][Next]_vars

----------------------------------------------------------------------------
(* webgrab.js main() *)

\* drivers.forEach(driver => taskRunner.addResource(driver)); driver i is i
RECURSIVE AddDrivers(_, _, _)
AddDrivers(w, count, browsercount) ==
  IF count > browsercount THEN w
  ELSE AddDrivers(addResource(w, count), count + 1, browsercount)

\* a plausible slip: the uri leaves pendingSites when its entry is shifted
\* from siteQueue, not when its job starts
RECURSIVE DispatchDeletesPending(_, _)
DispatchDeletesPending(w, queue) ==
  IF queue = << >> THEN w
  ELSE DispatchDeletesPending(
         addTask([w EXCEPT !.pendingSites = @ \ {Head(queue).site}],
                 "fetch", "crawl", Head(queue)),
         Tail(queue))

\* a plausible slip: the entries are taken from the end of siteQueue (pop)
RECURSIVE DispatchNewestFirst(_, _)
DispatchNewestFirst(w, queue) ==
  IF queue = << >> THEN w
  ELSE DispatchNewestFirst(
         addTask(w, "fetch", "crawl", queue[Len(queue)]),
         SubSeq(queue, 1, Len(queue) - 1))

\* the for loop of main(): one addTask per entry shifted from siteQueue
RECURSIVE Dispatch(_, _)
Dispatch(w, queue) ==
  IF queue = << >> THEN w
  ELSE Dispatch(addTask(w, "fetch", "crawl", Head(queue)), Tail(queue))

\* a plausible slip: the drivers are quit without awaiting promiseDone()
MainLoopQuitsAtOnce(w, queue) ==
  IF Len(queue) > 0
  THEN \E w1 \in {promiseDone(Dispatch(w, queue))} :
           /\ Commit(w1)
           /\ siteQueue' = << >>
           /\ awaited' = Len(w1.promises)
           /\ pc' = "await"
           /\ quit' = TRUE
  ELSE /\ Commit(w)
       /\ siteQueue' = queue
       /\ awaited' = 0
       /\ pc' = "done"
       /\ quit' = TRUE

\* One turn of "while (siteQueue.length)" up to its await, or the exit
MainLoop(w, queue) ==
  IF Len(queue) > 0
  THEN \E w1 \in {promiseDone(Dispatch(w, queue))} :
           /\ Commit(w1)
           /\ siteQueue' = << >>
           /\ awaited' = Len(w1.promises)
           /\ pc' = "await"
           /\ quit' = FALSE
  ELSE /\ Commit(w)
       /\ siteQueue' = queue
       /\ awaited' = 0
       /\ pc' = "done"
       /\ quit' = TRUE

CrawlInit ==
  /\ taskRunner = TaskRunner
  /\ tasks = << >>
  /\ promises = << >>
  /\ started = << >>
  /\ seenSites = {}
  /\ pendingSites = {}
  /\ siteQueue = << >>
  /\ siteCount = 0
  /\ pc = "start"
  /\ awaited = 0
  /\ quit = FALSE
  /\ config \in [browsercount : 0..MaxBrowsers, referencesOnly : BOOLEAN,
                 siteList : {normalizeSiteList(f) : f \in ConfigFiles}]
  /\ web = Web

\* main() from its first line to the first await
MainStart ==
  /\ pc = "start"
  /\ \E c \in {QueueStartingList(Crawl, config.siteList)},
        w \in {AddDrivers(World, 1, config.browsercount)} :
       /\ MainLoop([w EXCEPT !.pendingSites = c.pendingSites], c.siteQueue)
       /\ siteCount' = c.siteCount
  /\ UNCHANGED <<seenSites, config, web>>

\* a plausible slip: promiseDone() is called and not awaited
MainResumeNoAwait ==
  /\ pc = "await"
  /\ MainLoop(World, siteQueue)
  /\ UNCHANGED <<seenSites, siteCount, config, web>>

\* main() resumes after "await taskRunner.promiseDone()"
MainResume ==
  /\ pc = "await"
  /\ promises[awaited].resolved
  /\ MainLoop(World, siteQueue)
  /\ UNCHANGED <<seenSites, siteCount, config, web>>

CrawlNext ==
  \/ MainStart
  \/ MainResume
  \/ \E t \in 1..Len(tasks), outcome \in {"fulfilled", "rejected"} :
       JobSettles(t, outcome)
  \/ \E t \in 1..Len(tasks) : EndTaskReaction(t)

CrawlSpec == CrawlInit /\ [][CrawlNext]_vars

\* A crawl in which what can run does run: main() goes on when the promise it
\* awaits is resolved and promise reactions are run by the event loop; every
\* fetch settles, one way or the other (the page loads or loadURI throws).
FairCrawlSpec ==
  /\ CrawlInit /\ [][CrawlNext]_vars
  /\ WF_vars(MainStart)
  /\ WF_vars(MainResume)
  /\ WF_vars(\E t \in 1..Len(tasks), outcome \in {"fulfilled", "rejected"} :
               JobSettles(t, outcome))
  /\ WF_vars(\E t \in 1..Len(tasks) : EndTaskReaction(t))

\* The hrefs an <a> element of the seed's page may have: the same link without
\* and with a fragment, the same link as a path reference with another
\* fragment, a link to another host, a fragment-only reference, '#' and none
PageHrefs ==
  { Href("abs", "ex.com", "/a", ""), Href("abs", "ex.com", "/a", "x"),
    Href("path", "", "/a", "top"), Href("abs", "other.com", "/b", ""),
    Href("frag", "", "", "sec"), Href("#", "", "", ""),
    Href("empty", "", "", "") }

\* the <a> elements a page may have, in document order
PageHrefLists == UNION {[1..n -> PageHrefs] : n \in 0..MaxHrefs}

\* A crawl of the one seed https://ex.com/ with the default policy and one
\* browser, over every page the seed may have
LoadInit ==
  /\ taskRunner = TaskRunner
  /\ tasks = << >>
  /\ promises = << >>
  /\ started = << >>
  /\ seenSites = {}
  /\ pendingSites = {}
  /\ siteQueue = << >>
  /\ siteCount = 0
  /\ pc = "start"
  /\ awaited = 0
  /\ quit = FALSE
  /\ config = [browsercount |-> 1, referencesOnly |-> FALSE,
               siteList |-> normalizeSiteList(
                              << [type |-> "string", value |-> exRoot] >>)]
  /\ web \in {[Web EXCEPT ![exRoot].hrefs = hrefs] : hrefs \in PageHrefLists}

LoadSpec == LoadInit /\ [][CrawlNext]_vars

----------------------------------------------------------------------------
(* Properties of the scheduler (Spec) *)

TaskIds == 1..Len(tasks)
PromiseIds == 1..Len(promises)

\* the tasks whose job has been invoked and whose _endTask has not run
Active == {t \in TaskIds : tasks[t].state \in {"running", "fulfilled", "rejected"}}

\* the tasks that hold resource r
Holders(r) == {t \in Active : tasks[t].resource = r}

\* the resources added are pairwise distinct
DistinctResources ==
  \A i, j \in 1..Len(taskRunner.resourcePool) :
    i # j => taskRunner.resourcePool[i] # taskRunner.resourcePool[j]

\* nothing is running and nothing is queued
Idle == taskRunner.activeTaskCount = 0 /\ Len(taskRunner.taskQueue) = 0

\* C1: with R resources added, no more than R jobs run at the same time, and
\* _activeTaskCount never exceeds R.
C1_PoolBound ==
  /\ taskRunner.activeTaskCount <= Len(taskRunner.resourcePool)
  /\ Cardinality(Active) <= Len(taskRunner.resourcePool)

\* C1 witness: every resource is in use while a further task waits
C1_Witness ==
  /\ Len(taskRunner.resourcePool) = 2
  /\ taskRunner.activeTaskCount = 2
  /\ Cardinality({t \in TaskIds : tasks[t].state = "running"}) = 2
  /\ Len(taskRunner.taskQueue) = 1

\* C2: when the resources added are pairwise distinct, a resource is held by
\* at most one running task and is never free while a task holds it.
C2_ExclusiveResource ==
  DistinctResources =>
    \A r \in Range(taskRunner.resourcePool) :
      /\ Cardinality(Holders(r)) <= 1
      /\ ~(r \in Range(taskRunner.freeResourcePool) /\ Holders(r) # {})

\* C2 witness: two distinct resources, both held, one of them by its second task
C2_Witness ==
  /\ DistinctResources
  /\ Len(taskRunner.resourcePool) = 2
  /\ \A r \in Range(taskRunner.resourcePool) : Cardinality(Holders(r)) = 1
  /\ \E t \in TaskIds : \E u \in Active :
       tasks[t].state = "ended" /\ tasks[u].resource = tasks[t].resource

\* C3: once a started task's job has settled and the reactions to it have
\* run, its resource has been given back exactly once, whether the job
\* fulfilled or rejected; it is never given back twice.
C3_ReturnedExactlyOnce ==
  \A t \in TaskIds :
    /\ tasks[t].released <= 1
    /\ (tasks[t].outcome # "pending" /\ tasks[t].state # "fulfilled")
         => tasks[t].released = 1

\* C4: a rejection no onRejected handler takes is absorbed: the task comes to
\* its end (is counted out of _activeTaskCount and gives its resource back),
\* and the scheduler goes on starting queued tasks.
C4_RejectionAbsorbed ==
  /\ \A t \in TaskIds :
       (tasks[t].outcome = "rejected"
          /\ ~HasHandler(tasks[t].callback, "rejected"))
       => tasks[t].state \in {"fulfilled", "ended"}
  /\ taskRunner.activeTaskCount =
       Cardinality({t \in TaskIds : tasks[t].state \in {"running", "fulfilled"}})

\* the place of task t in the order of job invocations, 0 if not started
StartPos(t) ==
  IF \E i \in 1..Len(started) : started[i] = t
  THEN CHOOSE i \in 1..Len(started) : started[i] = t
  ELSE 0

\* C5: tasks start in submission order: when a task has started, every task
\* submitted before it has started earlier (task ids are submission order).
C5_StartOrder ==
  \A t1, t2 \in TaskIds :
    (t1 < t2 /\ StartPos(t2) # 0)
      => (StartPos(t1) # 0 /\ StartPos(t1) < StartPos(t2))

\* C5 witness: three jobs have started on one resource after two of the tasks
\* had to wait for it
C5_Witness ==
  /\ Len(taskRunner.resourcePool) = 1
  /\ Len(started) = 3
  /\ \E t \in TaskIds : tasks[t].state = "ended"

\* promise p is resolved in the next state and was not (or did not exist) in
\* this one
NewlyResolved(p) ==
  /\ promises'[p].resolved
  /\ (p \in PromiseIds => ~promises[p].resolved)

\* C6: a promiseDone() promise is resolved only in a state with nothing
\* running and nothing queued, and every state with nothing running and
\* nothing queued (the first such state after the call, or the call itself)
\* leaves no promiseDone() promise unresolved.
C6_DrainCorrect ==
  [][ /\ \A p \in 1..Len(promises') : NewlyResolved(p) => Idle'
      /\ Idle' => \A p \in 1..Len(promises') : promises'[p].resolved ]_vars

\* C7: when a promiseDone() promise resolves, every task submitted up to then
\* has come to its end, the tasks added after the call included.
C7_LateTasksAccounted ==
  \A p \in PromiseIds :
    promises[p].resolved =>
      \A t \in 1..promises[p].tasksAtResolve : tasks[t].state = "ended"

\* C7 witness: a promise asked for while work was active has resolved after
\* further tasks were added
C7_Witness ==
  \E p \in PromiseIds :
    /\ promises[p].resolved
    /\ promises[p].tasksAtCall >= 1
    /\ promises[p].tasksAtResolve > promises[p].tasksAtCall

\* C8: with a resource added and every submitted task at its end, so that
\* nothing is left to happen, no promiseDone() promise is still unresolved.
C8_EveryDoneResolves ==
  (Len(taskRunner.resourcePool) >= 1
     /\ \A t \in TaskIds : tasks[t].state = "ended")
  => \A p \in PromiseIds : promises[p].resolved

----------------------------------------------------------------------------
(* Properties of the crawl (CrawlSpec) *)

\* how many entries of siteQueue are for uri
QueuedFor(uri) ==
  Cardinality({i \in 1..Len(siteQueue) : siteQueue[i].site = uri})

\* the tasks made for uri (one per entry shifted from siteQueue)
TasksFor(uri) == {t \in TaskIds : tasks[t].item.site = uri}

\* C9: no uri is in seenSites and in pendingSites at the same time.
C9_SeenPendingDisjoint == seenSites \cap pendingSites = {}

\* C10: a uri is queued at most once in the run (its entries in siteQueue plus
\* the tasks made from its entries are at most one), so it is fetched at most
\* once.
C10_QueuedAtMostOnce ==
  \A uri \in Uris :
    /\ QueuedFor(uri) + Cardinality(TasksFor(uri)) <= 1
    /\ Cardinality({t \in TasksFor(uri) : tasks[t].calls > 0}) <= 1

\* the fetch tasks whose job failed (loadURI threw)
FailedFetches ==
  {t \in TaskIds : tasks[t].job = "fetch" /\ tasks[t].outcome = "rejected"}

\* C11: a uri whose fetch failed is marked seen all the same, so that a later
\* reference to it is taken for a duplicate: it is in seenSites from the failure
\* on, and no entry for it waits in siteQueue.
C11_FailedFetchSeen ==
  \A t \in FailedFetches :
    /\ tasks[t].item.site \in seenSites
    /\ QueuedFor(tasks[t].item.site) = 0

\* C12: a failed fetch stops neither the scheduler nor main(): the failure is
\* absorbed by the callback, so the task comes to _endTask like any other, and
\* a crawl with at least one browser runs to its end whichever fetches fail.
C12_FailuresIsolated ==
  /\ [](\A t \in FailedFetches : tasks[t].state \in {"fulfilled", "ended"})
  /\ (config.browsercount >= 1 => <>(pc = "done"))

\* C12 witness: a crawl of two seeds has ended after every fetch failed
C12_Witness ==
  /\ pc = "done"
  /\ config.browsercount >= 1
  /\ Len(tasks) >= 2
  /\ \A t \in TaskIds : t \in FailedFetches /\ tasks[t].state = "ended"

----------------------------------------------------------------------------
(* Properties of the admission of children (CrawlSpec) *)

\* this step is the fetch of task t fulfilling, with its callback.onFulfilled
FetchFulfils(t) ==
  /\ tasks[t].job = "fetch"
  /\ tasks[t].state = "running"
  /\ tasks'[t].outcome = "fulfilled"

\* the refs that callback.onFulfilled of siteItem finds neither seen nor
\* pending (the site itself has just been marked seen)
Candidates(siteItem) ==
  {ref \in Range(loadURI(siteItem.site)) :
     ref \notin seenSites \cup {siteItem.site} /\ ref \notin pendingSites}

\* C13: when the fetch of a parent that follows children (getChildren set,
\* depth > 0) fulfils, a candidate is admitted exactly if it matches some
\* alsoGetChildren pattern, or matches no dontGetChildren pattern and has the
\* parent's host; so a candidate matching a deny and an allow pattern is
\* admitted.  An admitted candidate is queued, unless the references-only mode
\* holds it back for its depth (then it is only logged).
C13_AdmissionPrecedence ==
  [][ \A t \in TaskIds :
        LET siteItem == tasks[t].item
        IN  (FetchFulfils(t) /\ siteItem.getChildren /\ siteItem.depth > 0)
            => \A ref \in Candidates(siteItem) :
                 LET allow == \E i \in 1..Len(siteItem.alsoGetChildren) :
                                ref \in siteItem.alsoGetChildren[i]
                     deny  == \E i \in 1..Len(siteItem.dontGetChildren) :
                                ref \in siteItem.dontGetChildren[i]
                     sameHost == ref.host = siteItem.site.host
                     admitted == getMe(siteItem, ref)
                 IN  /\ admitted <=> (allow \/ (~deny /\ sameHost))
                     /\ (allow /\ deny) => admitted
                     /\ (~config.referencesOnly \/ siteItem.depth > 1)
                          => (admitted <=> ref \in pendingSites') ]_vars

\* C13 witness: the seed's policy has a deny and an allow pattern that both
\* match other.com/b, the seed's page links to it, and it has been queued
C13_Witness ==
  /\ Len(config.siteList) = 1
  /\ AnyMatch(config.siteList[1].dontGetChildren, otherB)
  /\ AnyMatch(config.siteList[1].alsoGetChildren, otherB)
  /\ otherB \in Range(loadURI(config.siteList[1].site))
  /\ config.siteList[1].site \in seenSites
  /\ \/ QueuedFor(otherB) = 1
     \/ TasksFor(otherB) # {}

\* every SiteItem queued in the run: those waiting in siteQueue and those the
\* fetch tasks were made for
Entries ==
  Range(siteQueue) \cup {tasks[t].item : t \in {u \in TaskIds : tasks[u].job = "fetch"}}

\* the uris the pages of the uris in S link to
Links(S) == UNION {Range(loadURI(uri)) : uri \in S}

\* the uris at most n links away from a uri of S
RECURSIVE Within(_, _)
Within(S, n) ==
  IF n <= 0 \/ Links(S) \subseteq S THEN S ELSE Within(S \cup Links(S), n - 1)

\* C14: the fulfilled fetch of an entry of depth 0 queues nothing, whatever the
\* entry's flags and patterns; every entry has depth >= 0; and every entry is
\* at most d links away from a seed of depth d (an entry of depth k that
\* descends from it is d - k links away).
C14_DepthBound ==
  /\ [][ \A t \in TaskIds :
           (FetchFulfils(t) /\ tasks[t].item.depth = 0)
             => (siteQueue' = siteQueue /\ pendingSites' = pendingSites) ]_vars
  /\ [](\A e \in Entries :
          /\ e.depth >= 0
          /\ \E i \in 1..Len(config.siteList) :
               LET seed == config.siteList[i]
                   hops == seed.depth - e.depth
               IN  /\ hops >= 0
                   /\ hops <= seed.depth
                   /\ e.site \in Within({seed.site}, hops))

\* C14 witness: the page of a seed of depth 0 that follows children has been
\* fetched, it has links that are neither seen nor pending, and the crawl has
\* ended with the seed as its only entry
C14_Witness ==
  /\ pc = "done"
  /\ Len(tasks) = 1
  /\ tasks[1].outcome = "fulfilled"
  /\ tasks[1].item.depth = 0
  /\ tasks[1].item.getChildren
  /\ Candidates(tasks[1].item) # {}

----------------------------------------------------------------------------
(* Properties of the links of a page (LoadSpec) *)

\* C15: under the default policy, when the page of the seed holds links to one
\* uri of the seed's host, at least twice with different fragments, and links
\* to other hosts, and nothing else, the seed's fetch queues exactly one entry,
\* for the same-host uri; and no entry is ever queued for a uri of another
\* host (no allow pattern matches it).
C15_SameHostOnce ==
  LET seed == config.siteList[1]
      hrefs == web[seed.site].hrefs
      sameHost == {i \in 1..Len(hrefs) : hrefs[i].host = seed.site.host}
      scenario ==
        /\ \A i \in 1..Len(hrefs) : hrefs[i].kind = "abs"
        /\ \E i, j \in sameHost : hrefs[i].hash # hrefs[j].hash
        /\ \A i, j \in sameHost : hrefs[i].path = hrefs[j].path
        /\ \E i \in 1..Len(hrefs) : i \notin sameHost
  IN  /\ (scenario /\ Len(tasks) = 1 /\ tasks[1].outcome = "fulfilled"
            /\ tasks[1].state = "fulfilled")
         => /\ Len(siteQueue) = 1
            /\ siteQueue[1].site = Uri(seed.site.host, hrefs[CHOOSE i \in sameHost : TRUE].path)
            /\ pendingSites = {siteQueue[1].site}
            /\ siteCount = 2
      /\ \A e \in Entries : e.site.host = seed.site.host

\* C15 witness: the seed's page is the scenario's (ex.com/a, ex.com/a#x,
\* other.com/b), its fetch has fulfilled and its callback has run
C15_Witness ==
  /\ web[exRoot].hrefs = << Href("abs", "ex.com", "/a", ""),
                            Href("abs", "ex.com", "/a", "x"),
                            Href("abs", "other.com", "/b", "") >>
  /\ Len(tasks) = 1
  /\ tasks[1].outcome = "fulfilled"
  /\ tasks[1].state = "fulfilled"
  /\ siteQueue # << >>

\* C20: what loadURI returns for a page that has been fetched: the uris its
\* hrefs point to with the fragment dropped, so that hrefs that differ in the
\* fragment only give the same one uri; nothing for '#' and for an empty href;
\* and no uri twice.
C20_Canonical ==
  \A t \in TaskIds :
    (tasks[t].job = "fetch" /\ tasks[t].outcome = "fulfilled"
       /\ IsHtml(web[tasks[t].item.site].contentType))
    => LET page == web[tasks[t].item.site]
           out == loadURI(tasks[t].item.site)
           Target(href) ==
             CASE href.kind = "abs"  -> Uri(href.host, href.path)
               [] href.kind = "path" -> Uri(page.documentURI.host, href.path)
               [] OTHER              -> page.documentURI
       IN  /\ \A i, j \in 1..Len(out) : i # j => out[i] # out[j]
           /\ \A i \in 1..Len(out) : DOMAIN out[i] = {"host", "path"}
           /\ Range(out) = {Target(href) : href \in
                              {h \in Range(page.hrefs) : h.kind \notin {"#", "empty"}}}
           /\ \A i, j \in 1..Len(page.hrefs) :
                LET hi == page.hrefs[i]
                    hj == page.hrefs[j]
                IN  (hi.kind \notin {"#", "empty"}
                       /\ [hi EXCEPT !.hash = ""] = [hj EXCEPT !.hash = ""])
                    => Cardinality({k \in 1..Len(out) :
                                      out[k] = Target(hi) /\ out[k] = Target(hj)}) = 1

\* C20 witness: a fetched page holds a link twice with different fragments
\* beside a '#' or an empty href, and loadURI returns the one uri for it
C20_Witness ==
  /\ Len(tasks) >= 1
  /\ tasks[1].outcome = "fulfilled"
  /\ LET hrefs == web[tasks[1].item.site].hrefs
     IN  /\ \E i, j \in 1..Len(hrefs) :
               /\ hrefs[i].kind = "abs" /\ hrefs[j].kind = "abs"
               /\ hrefs[i].hash # hrefs[j].hash
               /\ [hrefs[i] EXCEPT !.hash = ""] = [hrefs[j] EXCEPT !.hash = ""]
         /\ \E i \in 1..Len(hrefs) : hrefs[i].kind \in {"#", "empty"}
  /\ Len(loadURI(tasks[1].item.site)) = 1

----------------------------------------------------------------------------
(* Properties of the end of the crawl (FairCrawlSpec) *)

\* C16: a crawl with at least one browser, in which every fetch settles, comes
\* to the end of main(); and when main() has left its loop siteQueue is empty,
\* the scheduler has no active and no queued task, pendingSites is empty and
\* the fetch of every entry ever queued has been started.
C16_Termination ==
  /\ (config.browsercount >= 1 => <>(pc = "done"))
  /\ [](pc = "done" =>
          /\ siteQueue = << >>
          /\ taskRunner.activeTaskCount = 0
          /\ taskRunner.taskQueue = << >>
          /\ pendingSites = {}
          /\ \A t \in TaskIds : tasks[t].calls >= 1)

\* C16 witness: main() has left its loop after three turns or more, with
\* fetches that were queued behind others
C16_Witness ==
  /\ pc = "done"
  /\ quit
  /\ config.browsercount >= 1
  /\ Len(promises) >= 3
  /\ Len(tasks) > Len(promises)
  /\ \A t \in TaskIds : tasks[t].state = "ended"

----------------------------------------------------------------------------
(* Properties of the scheduler's use of its resources (Spec) *)

\* the tasks whose _endTask has run
Ended == {t \in TaskIds : tasks[t].state = "ended"}

\* the job of task t is invoked in this step
Starts(t) == tasks'[t].calls > (IF t \in TaskIds THEN tasks[t].calls ELSE 0)

\* C17: no task waits while a resource is free.  So of the tasks submitted to R
\* resources, R are started at once (as long as none has ended, the jobs
\* started are as many as the tasks or the resources, whichever is fewer, and
\* never more than the resources plus the tasks that ended), and a task that
\* had to wait is started only by a step in which a task ends or a resource
\* is added.
C17_WorkConserving ==
  /\ [](taskRunner.taskQueue # << >> => taskRunner.freeResourcePool = << >>)
  /\ [](Len(started) <= Len(taskRunner.resourcePool) + Cardinality(Ended))
  /\ [](Ended = {} =>
          Len(started) = IF Len(tasks) < Len(taskRunner.resourcePool)
                         THEN Len(tasks) ELSE Len(taskRunner.resourcePool))
  /\ [][ \A t \in 1..Len(tasks') :
           Starts(t) =>
             IF t \in TaskIds
             THEN /\ tasks[t].waited
                  /\ \/ \E u \in TaskIds : u \notin Ended /\ u \in Ended'
                     \/ Len(taskRunner.resourcePool') > Len(taskRunner.resourcePool)
             ELSE ~tasks'[t].waited ]_vars

\* C17 witness: three tasks were submitted to two resources; the first two
\* were started by addTask, the third waited and has started after one ended
C17_Witness ==
  /\ Len(taskRunner.resourcePool) = 2
  /\ Len(tasks) = 3
  /\ ~tasks[1].waited /\ ~tasks[2].waited
  /\ tasks[3].waited
  /\ tasks[3].state = "running"
  /\ Cardinality(Ended) = 1

\* C18: addResource(r) registers r; when tasks wait, it starts the oldest of
\* them, and that task alone, on r itself, and otherwise it leaves r as the
\* newest free resource.
C18_AddResourceStartsOldest ==
  [][ Len(taskRunner.resourcePool') = Len(taskRunner.resourcePool) + 1 =>
        LET r == taskRunner.resourcePool'[Len(taskRunner.resourcePool')]
        IN  /\ taskRunner.resourcePool' = Append(taskRunner.resourcePool, r)
            /\ IF taskRunner.taskQueue # << >>
               THEN LET oldest == Head(taskRunner.taskQueue)
                    IN  /\ \A t \in TaskIds : Starts(t) <=> t = oldest
                        /\ tasks'[oldest].resource = r
                        /\ tasks'[oldest].state = "running"
                        /\ taskRunner.taskQueue' = Tail(taskRunner.taskQueue)
                        /\ taskRunner.freeResourcePool' = taskRunner.freeResourcePool
               ELSE /\ \A t \in TaskIds : ~Starts(t)
                    /\ taskRunner.freeResourcePool'
                         = Append(taskRunner.freeResourcePool, r) ]_vars

\* C18 witness: the second task found no free resource and waited; no task has
\* ended, and it runs on the resource added second
C18_Witness ==
  /\ Len(taskRunner.resourcePool) = 2
  /\ taskRunner.resourcePool[1] # taskRunner.resourcePool[2]
  /\ Len(tasks) >= 2
  /\ tasks[2].waited
  /\ tasks[2].state = "running"
  /\ tasks[2].resource = taskRunner.resourcePool[2]
  /\ Ended = {}

\* C19: between operations _activeTaskCount is the number of registered
\* resources minus the number of free ones, and it is never negative.
C19_ActiveCount ==
  /\ taskRunner.activeTaskCount
       = Len(taskRunner.resourcePool) - Len(taskRunner.freeResourcePool)
  /\ taskRunner.activeTaskCount >= 0

\* C19 witness: of two resources one is free again after its task ended and
\* the other is held by a task that is still counted
C19_Witness ==
  /\ Len(taskRunner.resourcePool) = 2
  /\ Len(taskRunner.freeResourcePool) = 1
  /\ taskRunner.activeTaskCount = 1
  /\ Ended # {}
  /\ \E t \in TaskIds : tasks[t].state = "running"

----------------------------------------------------------------------------
(* Properties of the entries made for children (CrawlSpec) *)

\* the entries this step appends to siteQueue
NewEntries ==
  {siteQueue'[k] : k \in (Len(siteQueue) + 1)..Len(siteQueue')}

\* C21: an entry made for a child has getChildren true if its uri matches an
\* alsoExpandChildren pattern of the parent, else false if it matches a
\* dontExpandChildren pattern, else the parent's expandChildren; its depth is
\* the parent's less one and its other fields are the parent's; the parent's
\* own entry is as it was.
C21_ChildPolicy ==
  [][ \A t \in TaskIds :
        FetchFulfils(t) =>
          LET siteItem == tasks[t].item
          IN  /\ tasks'[t].item = siteItem
              /\ \A childItem \in NewEntries :
                   LET ref == childItem.site
                       allow == \E i \in 1..Len(siteItem.alsoExpandChildren) :
                                  ref \in siteItem.alsoExpandChildren[i]
                       deny  == \E i \in 1..Len(siteItem.dontExpandChildren) :
                                  ref \in siteItem.dontExpandChildren[i]
                       E == IF allow THEN TRUE
                            ELSE IF deny THEN FALSE
                            ELSE siteItem.expandChildren
                   IN  /\ childItem.getChildren = E
                       /\ childItem.depth = siteItem.depth - 1
                       /\ \A property \in DOMAIN siteItem \ {"site", "getChildren", "depth"} :
                            childItem[property] = siteItem[property] ]_vars

\* C21 witness: entries exist for a child that matches an allow-expand and a
\* deny-expand pattern (so it follows children although its parent's
\* expandChildren is false) and for a child that matches a deny-expand
\* pattern only (so it does not)
C21_Witness ==
  /\ Len(config.siteList) = 1
  /\ ~config.siteList[1].expandChildren
  /\ \E e1, e2 \in Entries :
       /\ AnyMatch(config.siteList[1].alsoExpandChildren, e1.site)
       /\ AnyMatch(config.siteList[1].dontExpandChildren, e1.site)
       /\ e1.getChildren
       /\ e1.depth = config.siteList[1].depth - 1
       /\ ~AnyMatch(config.siteList[1].alsoExpandChildren, e2.site)
       /\ AnyMatch(config.siteList[1].dontExpandChildren, e2.site)
       /\ ~e2.getChildren

\* C22: the fulfilled fetch of an entry whose getChildren is false queues
\* nothing and counts nothing, whatever its page links to and whatever its
\* alsoGetChildren patterns match; so the page of a child made with
\* getChildren false is fetched and none of its links is queued through it.
C22_NoChildrenWithoutGetChildren ==
  [][ \A t \in TaskIds :
        (FetchFulfils(t) /\ ~tasks[t].item.getChildren)
          => /\ NewEntries = {}
             /\ siteQueue' = siteQueue
             /\ pendingSites' = pendingSites
             /\ siteCount' = siteCount
             /\ tasks[t].item.site \in seenSites' ]_vars

\* C22 witness: the crawl of a seed with getChildren false has ended with the
\* seed as its only entry, although its page was fetched and links to a uri,
\* neither seen nor pending, that an alsoGetChildren pattern matches
C22_Witness ==
  /\ pc = "done"
  /\ Len(tasks) = 1
  /\ tasks[1].outcome = "fulfilled"
  /\ ~tasks[1].item.getChildren
  /\ tasks[1].item.depth > 0
  /\ \E ref \in Candidates(tasks[1].item) :
       AnyMatch(tasks[1].item.alsoGetChildren, ref)

----------------------------------------------------------------------------
(* Properties of main()'s loop (CrawlSpec) *)

\* C23: tasks are submitted batch by batch: a step that submits tasks finds
\* every task submitted before at its end, so an entry queued while a batch is
\* fetched waits in siteQueue until the whole batch is done, free browsers or
\* not.
C23_BatchBarrier ==
  [][ Len(tasks') > Len(tasks) =>
        /\ \A t \in TaskIds : tasks[t].state = "ended"
        /\ pc = "start" \/ promises[awaited].resolved ]_vars

\* C23 witness: an entry waits in siteQueue while a browser is free and a
\* fetch of the batch is still running
C23_Witness ==
  /\ siteQueue # << >>
  /\ taskRunner.freeResourcePool # << >>
  /\ Ended # {}
  /\ \E t \in TaskIds : tasks[t].state = "running"

\* C24: a uri is in pendingSites exactly while an entry for it waits, in
\* siteQueue or as a task in the scheduler's queue whose job has not started;
\* and no uri has two waiting entries, so a reference to a waiting uri is not
\* queued again.
C24_PendingUntilStart ==
  \A uri \in Uris :
    LET waiting == QueuedFor(uri)
                   + Cardinality({t \in TasksFor(uri) : tasks[t].state = "queued"})
    IN  /\ waiting <= 1
        /\ uri \in pendingSites <=> waiting = 1

\* C24 witness: a fetch task waits in the scheduler's queue, its uri is in
\* pendingSites, and a fetch that has fulfilled for a parent that follows
\* children returned a reference to that uri
C24_Witness ==
  \E t1, t2 \in TaskIds :
    /\ tasks[t1].job = "fetch"
    /\ tasks[t1].state = "queued"
    /\ tasks[t1].item.site \in pendingSites
    /\ tasks[t2].outcome = "fulfilled"
    /\ tasks[t2].item.getChildren /\ tasks[t2].item.depth > 0
    /\ tasks[t1].item.site \in Range(loadURI(tasks[t2].item.site))
    /\ QueuedFor(tasks[t1].item.site) = 0

\* C25: every uri that has an entry in siteQueue is in pendingSites, and
\* siteQueue holds no two entries for one uri.
C25_QueueWithinPending ==
  /\ \A i \in 1..Len(siteQueue) : siteQueue[i].site \in pendingSites
  /\ \A i, j \in 1..Len(siteQueue) :
       siteQueue[i].site = siteQueue[j].site => i = j

\* C25 witness: two entries wait in siteQueue after two fetches have fulfilled
C25_Witness ==
  /\ Len(siteQueue) >= 2
  /\ Cardinality({t \in TaskIds : tasks[t].outcome = "fulfilled"}) >= 2

\* C26: seeding queues each distinct uri of the configured list once, as its
\* first occurrence with that occurrence's policy, in the list's order: the
\* first tasks of the crawl are made for exactly these entries, and until a
\* fetch has fulfilled they are all the tasks and siteCount is their number.
C26_SeedsOnce ==
  LET siteList == config.siteList
      firsts == {i \in 1..Len(siteList) :
                   \A j \in 1..(i - 1) : siteList[j].site # siteList[i].site}
      n == Cardinality(firsts)
      nth(k) == CHOOSE i \in firsts : Cardinality({j \in firsts : j <= i}) = k
  IN  pc # "start" =>
        /\ Len(tasks) >= n
        /\ \A k \in 1..n : tasks[k].item = siteList[nth(k)]
        /\ siteCount >= n
        /\ (\A t \in TaskIds : tasks[t].outcome # "fulfilled")
             => (Len(tasks) = n /\ siteCount = n /\ siteQueue = << >>)

\* C26 witness: the list names one uri twice with different policies, and the
\* crawl has one task, with the policy of the first occurrence
C26_Witness ==
  /\ pc # "start"
  /\ Len(config.siteList) = 2
  /\ config.siteList[1].site = config.siteList[2].site
  /\ config.siteList[1] # config.siteList[2]
  /\ Len(tasks) = 1
  /\ tasks[1].item = config.siteList[1]
  /\ siteCount = 1

----------------------------------------------------------------------------
(* Properties of the references-only mode (CrawlSpec) *)

\* the candidates of siteItem's callback that pass "Should we get this
\* reference uri?"
Passing(siteItem) == {ref \in Candidates(siteItem) : getMe(siteItem, ref)}

\* this step is the fulfilled fetch, in references-only mode, of task t whose
\* entry follows children
FulfilsReferencesOnly(t) ==
  /\ FetchFulfils(t)
  /\ config.referencesOnly
  /\ tasks[t].item.getChildren
  /\ tasks[t].item.depth > 0

\* C27 as stated: in references-only mode a candidate that passes admission
\* with derived depth 0 is not added to pendingSites or siteQueue and still
\* increments siteCount; with derived depth > 0 the callback does what it does
\* without the mode.
C27_WouldIsCounted ==
  [][ \A t \in TaskIds :
        FulfilsReferencesOnly(t) =>
          IF tasks[t].item.depth = 1
          THEN /\ siteQueue' = siteQueue
               /\ pendingSites' = pendingSites
               /\ siteCount' = siteCount + Cardinality(Passing(tasks[t].item))
          ELSE \E c \in {onFulfilled(Crawl, tasks[t].item,
                                     loadURI(tasks[t].item.site), FALSE)} :
                 /\ siteQueue' = c.siteQueue
                 /\ pendingSites' = c.pendingSites
                 /\ siteCount' = c.siteCount ]_vars

\* C27 amended: in references-only mode a candidate that passes admission
\* with derived depth 0 is not added to pendingSites or siteQueue and does not
\* increment siteCount either; with derived depth > 0 the callback does what
\* it does without the mode.
C27_WouldIsNotCounted ==
  [][ \A t \in TaskIds :
        FulfilsReferencesOnly(t) =>
          IF tasks[t].item.depth = 1
          THEN /\ siteQueue' = siteQueue
               /\ pendingSites' = pendingSites
               /\ siteCount' = siteCount
          ELSE \E c \in {onFulfilled(Crawl, tasks[t].item,
                                     loadURI(tasks[t].item.site), FALSE)} :
                 /\ siteQueue' = c.siteQueue
                 /\ pendingSites' = c.pendingSites
                 /\ siteCount' = c.siteCount
                 /\ Passing(tasks[t].item) \subseteq pendingSites' ]_vars

\* C27 witness: in references-only mode the crawl of a seed of depth 1 has
\* ended with the seed as its only entry and siteCount 1, although candidates
\* of its page pass admission
C27_Witness ==
  /\ config.referencesOnly
  /\ pc = "done"
  /\ Len(tasks) = 1
  /\ tasks[1].outcome = "fulfilled"
  /\ tasks[1].item.getChildren
  /\ tasks[1].item.depth = 1
  /\ Passing(tasks[1].item) # {}
  /\ siteCount = 1

\* C28: driver.quit() is called only when the crawl is over: once the drivers
\* are quit no task is running or queued in the scheduler, siteQueue is empty,
\* and nothing of this changes afterwards.
C28_QuitAfterCrawl ==
  /\ [](quit =>
          /\ \A t \in TaskIds : tasks[t].state = "ended"
          /\ taskRunner.taskQueue = << >>
          /\ taskRunner.activeTaskCount = 0
          /\ siteQueue = << >>)
  /\ [][quit => UNCHANGED vars]_vars

\* C28 witness: the drivers are quit after a crawl of several batches on two
\* browsers
C28_Witness ==
  /\ quit
  /\ Len(taskRunner.resourcePool) = 2
  /\ Len(promises) >= 2
  /\ Len(tasks) >= 3

\* C29: fetches start in the order their entries were appended to siteQueue:
\* a fulfilled fetch appends to siteQueue and leaves what waits there in
\* place, main() makes the tasks of a batch in siteQueue's order, after the
\* tasks of the batches before, and jobs are invoked in the order of the tasks.
C29_StartInAdmissionOrder ==
  /\ [](\A i, j \in 1..Len(started) : i < j => started[i] < started[j])
  /\ [][ /\ (pc = "await" /\ Len(tasks') > Len(tasks)) =>
              /\ Len(tasks') = Len(tasks) + Len(siteQueue)
              /\ \A k \in 1..Len(siteQueue) :
                   tasks'[Len(tasks) + k].item = siteQueue[k]
         /\ (\E t \in TaskIds : FetchFulfils(t)) =>
              /\ Len(siteQueue') >= Len(siteQueue)
              /\ SubSeq(siteQueue', 1, Len(siteQueue)) = siteQueue ]_vars

\* C29 witness: on two browsers three fetches have started, and one that
\* started later has fulfilled and queued a child while one that started
\* earlier is still running
C29_Witness ==
  /\ Len(started) >= 3
  /\ siteQueue # << >>
  /\ \E i, j \in 1..Len(started) :
       /\ i < j
       /\ tasks[started[i]].state = "running"
       /\ tasks[started[j]].outcome = "fulfilled"

----------------------------------------------------------------------------
(* Properties of the scheduler's handling of failed jobs (Spec) *)

\* the tasks whose job failed and whose promise chain ended there, _endTask
\* not being chained to a rejection
Dead == {t \in TaskIds : tasks[t].state = "rejected"}

\* C30: the job of a task is invoked at most once, however it settles, and
\* once when a resource is free for it (no task waits beside a free resource);
\* and a failed job does not keep the tasks queued behind it from starting:
\* while tasks wait for a registered resource, some task that holds one is
\* still going to give it back.
C30_NeverRetried ==
  /\ \A t \in TaskIds :
       /\ tasks[t].calls <= 1
       /\ tasks[t].state # "queued" => tasks[t].calls = 1
       /\ tasks[t].state = "queued" => taskRunner.freeResourcePool = << >>
  /\ (taskRunner.taskQueue # << >> /\ taskRunner.resourcePool # << >>)
       => Active \ Dead # {}

----------------------------------------------------------------------------
\* C31: a task whose callback failed (its handler for the job's outcome threw
\* or returned a rejected promise) still comes to _endTask: it is never left
\* with the promise _endTask is chained to rejected, counted in
\* _activeTaskCount and holding its resource.
C31_ReleasedWhenCallbackFails ==
  \A t \in TaskIds :
    (tasks[t].outcome # "pending"
       /\ HasHandler(tasks[t].callback, tasks[t].outcome))
    => /\ tasks[t].state \in {"fulfilled", "ended"}
       /\ (tasks[t].state = "ended" => tasks[t].released = 1)

\* a task whose onFulfilled failed is left counted and holding its resource,
\* with nothing left that could end it
C31_CallbackFailureHoldsResource ==
  \E t \in TaskIds :
    /\ tasks[t].outcome = "fulfilled"
    /\ tasks[t].callback \in {"onFulfilled", "both"}
    /\ tasks[t].state = "rejected"
    /\ tasks[t].released = 0
    /\ tasks[t].resource \notin Range(taskRunner.freeResourcePool)
    /\ taskRunner.activeTaskCount >= 1

----------------------------------------------------------------------------
(* test/taskrunner.js: resourceCount resources are added, then jobCount jobs
   without callback, then the test awaits promiseDone() and asserts.  A job
   notes its resource in usedResources when it is invoked and counts itself in
   doneJobs when its timer fires, just before it resolves; it never rejects. *)

\* the largest resourceCount and jobCount tried (the test has 5 and 100)
MaxResources == 3
MaxJobs == 4

\* resources.forEach(resource => taskRunner.addResource(resource));
\* resource i is i
RECURSIVE AddResources(_, _, _)
AddResources(w, count, resourceCount) ==
  IF count > resourceCount THEN w
  ELSE AddResources(addResource(w, count), count + 1, resourceCount)

\* jobs.forEach(job => taskRunner.addTask(job))
RECURSIVE AddJobs(_, _)
AddJobs(w, jobCount) ==
  IF jobCount = 0 THEN w
  ELSE AddJobs(addTask(w, "job", "none", NoItem), jobCount - 1)

\* usedResources: for each resource, the jobs invoked with it
usedResources ==
  [r \in {tasks[t].resource : t \in {u \in TaskIds : tasks[u].calls > 0}} |->
     Cardinality({t \in TaskIds : tasks[t].calls > 0 /\ tasks[t].resource = r})]

\* doneJobs: the jobs whose timer has fired
doneJobs == Cardinality({t \in TaskIds : tasks[t].outcome = "fulfilled"})

TestInit ==
  /\ taskRunner = TaskRunner
  /\ tasks = << >>
  /\ promises = << >>
  /\ started = << >>
  /\ seenSites = {}
  /\ pendingSites = {}
  /\ siteQueue = << >>
  /\ siteCount = 0
  /\ pc = "test"
  /\ awaited = 0
  /\ quit = FALSE
  /\ config = NoConfig
  /\ web = Web

\* it('works') up to its await
TestStart ==
  /\ pc = "test"
  /\ \E resourceCount \in 1..MaxResources, jobCount \in 1..MaxJobs :
       \E w \in {promiseDone(AddJobs(AddResources(World, 1, resourceCount),
                                     jobCount))} :
         /\ Commit(w)
         /\ awaited' = Len(w.promises)
  /\ pc' = "await"
  /\ UNCHANGED <<seenSites, siteQueue, siteCount, quit, config, web>>

\* the test resumes after "await taskRunner.promiseDone()" and asserts
TestResume ==
  /\ pc = "await"
  /\ promises[awaited].resolved
  /\ pc' = "asserted"
  /\ UNCHANGED <<taskRunner, tasks, promises, started, pendingSites>>
  /\ UNCHANGED <<seenSites, siteQueue, siteCount, awaited, quit, config, web>>

TestNext ==
  \/ TestStart
  \/ TestResume
  \/ \E t \in 1..Len(tasks) : JobSettles(t, "fulfilled")
  \/ \E t \in 1..Len(tasks) : EndTaskReaction(t)

TestSpec == TestInit /\ [][TestNext]_vars

\* C32: with R distinct resources added before N >= R tasks, the first R tasks
\* are started on the R resources in the order these were added, and once the
\* promise of promiseDone() is resolved every resource has been used by at
\* least one job and all N jobs are done.
C32_EveryResourceUsed ==
  (pc # "test" /\ Len(tasks) >= Len(taskRunner.resourcePool)) =>
    /\ DistinctResources
    /\ \A i \in 1..Len(taskRunner.resourcePool) :
         started[i] = i /\ tasks[i].resource = taskRunner.resourcePool[i]
    /\ promises[awaited].resolved =>
         /\ DOMAIN usedResources = Range(taskRunner.resourcePool)
         /\ doneJobs = Len(tasks)

\* C32 witness: the test has resumed after four jobs on three resources, one
\* of which ran two of them
C32_Witness ==
  /\ pc = "asserted"
  /\ Len(taskRunner.resourcePool) = 3
  /\ doneJobs = 4
  /\ \E r \in DOMAIN usedResources : usedResources[r] = 2

----------------------------------------------------------------------------
\* C33: in a crawl with one browser in which no fetch has failed, no uri is
\* queued or fetched twice, and at every admission step (a fetch fulfils and
\* its callback.onFulfilled runs) every uri queued so far, other than the one
\* just fetched, which the callback marks seen first, is in seenSites or in
\* pendingSites: the one job in flight is the callback's own.
C33_OneBrowserNoRefetch ==
  /\ []((config.browsercount = 1 /\ FailedFetches = {}) =>
          \A uri \in Uris :
            /\ QueuedFor(uri) + Cardinality(TasksFor(uri)) <= 1
            /\ Cardinality({t \in TasksFor(uri) : tasks[t].calls > 0}) <= 1)
  /\ [][(config.browsercount = 1 /\ FailedFetches = {}) =>
          \A t \in TaskIds :
            FetchFulfils(t) =>
              /\ tasks[t].item.site \in seenSites'
              /\ \A e \in Entries :
                   e.site \in seenSites \cup pendingSites
                                \cup {tasks[t].item.site}]_vars

\* C33 witness: a crawl with one browser is over without a failed fetch, after
\* three fetches, one of a page that links back to a uri fetched before it
C33_Witness ==
  /\ pc = "done"
  /\ config.browsercount = 1
  /\ FailedFetches = {}
  /\ Cardinality(Ended) >= 3
  /\ \E t1, t2 \in Ended :
       /\ t1 < t2
       /\ tasks[t2].item.getChildren /\ tasks[t2].item.depth > 0
       /\ tasks[t1].item.site \in Range(loadURI(tasks[t2].item.site))

----------------------------------------------------------------------------
\* every registered resource is in _freeResourcePool
AllFree ==
  /\ Len(taskRunner.freeResourcePool) = Len(taskRunner.resourcePool)
  /\ Range(taskRunner.resourcePool) \subseteq Range(taskRunner.freeResourcePool)

\* C34 as stated: when a promiseDone() promise is resolved (at the call, or by
\* _onDone() in _endTask) every registered resource is in _freeResourcePool,
\* and so it is in every later state in which no task has been added since.
C34_AllFreeWhenDone ==
  \A p \in PromiseIds :
    promises[p].resolved =>
      /\ promises[p].busyAtResolve = 0
      /\ (Len(tasks) = promises[p].tasksAtResolve => AllFree)

\* C34 amended: when _onDone() fires in _endTask every registered resource but
\* the ending task's is in _freeResourcePool, and that one is pushed by the
\* same call of _endTask; a promise resolved by promiseDone() itself finds all
\* of them there; and in every state in which a promise is resolved and no
\* task has been added since, every registered resource is in
\* _freeResourcePool.
C34_AllFreeWhenAwaiterResumes ==
  /\ [](\A p \in PromiseIds :
          (promises[p].resolved /\ Len(tasks) = promises[p].tasksAtResolve)
            => AllFree)
  /\ [][\A t \in TaskIds : \A p \in 1..Len(promises') :
          (tasks[t].state = "fulfilled" /\ tasks'[t].state = "ended"
             /\ NewlyResolved(p))
          => /\ promises'[p].busyAtResolve = 1
             /\ taskRunner'.freeResourcePool =
                  Append(taskRunner.freeResourcePool, tasks[t].resource)
             /\ AllFree']_vars
  /\ [][\A p \in 1..Len(promises') :
          (p \notin PromiseIds /\ promises'[p].resolved)
          => promises'[p].busyAtResolve = 0 /\ AllFree]_vars

\* C34 witness: with two resources registered, a promise was resolved by
\* _endTask while the ending task's resource was still out, and all resources
\* are free now that no task has been added since
C34_Witness ==
  /\ Len(taskRunner.resourcePool) = 2
  /\ DistinctResources
  /\ \E p \in PromiseIds :
       /\ promises[p].resolved
       /\ promises[p].busyAtResolve = 1
       /\ promises[p].tasksAtResolve = Len(tasks)
       /\ promises[p].tasksAtResolve >= 2
  /\ AllFree

====
